---- MODULE Spec2Model ----
(***************************************************************************)
(* Model of the DMP engine of pydmps/dmp.py (class DMPs): reset_state,     *)
(* step, rollout and imitate_path.                                         *)
(*                                                                         *)
(* Python floats are modelled as exact rationals <<num, den>> in lowest    *)
(* terms with den > 0, so that every equation of the integration step is   *)
(* computed as the code computes it, over the reals.                       *)
(*                                                                         *)
(* The canonical system (pydmps.cs.CanonicalSystem) and the four basis     *)
(* hooks (gen_psi, gen_front_term, gen_goal, gen_weights) are not part of  *)
(* dmp.py; they are modelled from the interface the engine needs.          *)
(***************************************************************************)
EXTENDS Integers, Sequences, FiniteSets, TLC

VARIABLES dmp, pre, call, ret

vars == <<dmp, pre, call, ret>>

(***************************************************************************)
(* Exact rational arithmetic.                                              *)
(***************************************************************************)
RECURSIVE GCD(_, _)
GCD(a, b) == IF b = 0 THEN a ELSE GCD(b, a % b)

IAbs(n) == IF n < 0 THEN -n ELSE n

Q(n, d) ==
    LET g == GCD(IAbs(n), d) IN <<n \div g, d \div g>>

R(n) == <<n, 1>>

RAdd(a, b) ==
    LET g == GCD(a[2], b[2])
        l == (a[2] \div g) * b[2]
    IN  Q(a[1] * (l \div a[2]) + b[1] * (l \div b[2]), l)

RNeg(a) == <<-a[1], a[2]>>

RSub(a, b) == RAdd(a, RNeg(b))

RMul(a, b) ==
    IF a[1] = 0 \/ b[1] = 0 THEN <<0, 1>>
    ELSE LET g1 == GCD(IAbs(a[1]), b[2])
             g2 == GCD(IAbs(b[1]), a[2])
         IN  <<(a[1] \div g1) * (b[1] \div g2), (a[2] \div g2) * (b[2] \div g1)>>

RInv(a) == IF a[1] > 0 THEN <<a[2], a[1]>> ELSE <<-a[2], -a[1]>>

RDiv(a, b) == RMul(a, RInv(b))

RAbs(a) == <<IAbs(a[1]), a[2]>>

RLe(a, b) == a[1] * b[2] <= b[1] * a[2]

\* Python's int(): truncation toward zero.
Trunc(a) == IF a[1] >= 0 THEN a[1] \div a[2] ELSE -((-a[1]) \div a[2])

(***************************************************************************)
(* Bounds of the model and construction parameters.                        *)
(***************************************************************************)
n_dmps == 2

n_bfs == 2

MaxSteps == 2

MaxTimesteps == 2

dt == Q(1, 4)

run_time == Q(1, 2)

Dims == 1 .. n_dmps

None == <<>>

NoTimesteps == 0 - 1

Vec(q) == [d \in Dims |-> q]

Ramp(q) == [d \in Dims |-> RMul(R(d), q)]

\* self.timesteps = int(self.cs.run_time / self.dt)
timesteps == Trunc(RDiv(run_time, dt))

(***************************************************************************)
(* Phase source (CanonicalSystem): the phase x starts at 1 and decays by   *)
(* x += (-ax * x * error_coupling) * tau * dt at every step; n counts the  *)
(* advances since the last reset.                                          *)
(***************************************************************************)
ax == R(1)

cs_reset_state == [x |-> R(1), n |-> 0]

cs_step(cs, tau, error_coupling) ==
    [x |-> RAdd(cs.x, RMul(RMul(RMul(RNeg(RMul(ax, cs.x)), error_coupling), tau), dt)),
     n |-> cs.n + 1]

(***************************************************************************)
(* Basis policy (the four hooks the base class leaves unimplemented),      *)
(* here the point-to-point policy: piecewise-linear bumps                  *)
(* max(0, 1 - (n_bfs-1)*|x - c_b|) centred on the uniform grid             *)
(* c_b = (b-1)/(n_bfs-1) of the phase domain [0, 1], a front term          *)
(* x * (goal - y0), and the last sample of the demonstration as the goal.  *)
(***************************************************************************)
RMax0(q) == IF q[1] < 0 THEN R(0) ELSE q

gen_psi(x) ==
    [b \in 1 .. n_bfs |->
        RMax0(RSub(R(1), RMul(R(n_bfs - 1), RAbs(RSub(x, Q(b - 1, n_bfs - 1))))))]

gen_front_term(s, x, d) == RMul(x, RSub(s.goal[d], s.y0[d]))

gen_goal(y_des) == [d \in Dims |-> y_des[d][Len(y_des[d])]]

RECURSIVE RSum(_, _)
RSum(v, k) == IF k = 0 THEN R(0) ELSE RAdd(RSum(v, k - 1), v[k])

\* np.dot(psi, w_d)
Dot(psi, w_d) == RSum([b \in 1 .. n_bfs |-> RMul(psi[b], w_d[b])], n_bfs)

(***************************************************************************)
(* DMPs.reset_state(y0, dy0)                                               *)
(***************************************************************************)
\* reset_state without its last line, self.cs.reset_state()
reset_state_keeps_phase(s, y0, dy0) ==
    [s EXCEPT !.y0  = IF y0 # None THEN y0 ELSE s.y0,
              !.y   = IF y0 # None THEN y0 ELSE s.y0,
              !.dy  = IF dy0 # None THEN dy0 ELSE Vec(R(0)),
              !.vel = Vec(R(0)),
              !.acc = Vec(R(0)),
              !.ddy = Vec(R(0))]

reset_state(s, y0, dy0) ==
    [s EXCEPT !.y0  = IF y0 # None THEN y0 ELSE s.y0,
              !.y   = IF y0 # None THEN y0 ELSE s.y0,
              !.dy  = IF dy0 # None THEN dy0 ELSE Vec(R(0)),
              !.vel = Vec(R(0)),
              !.acc = Vec(R(0)),
              !.ddy = Vec(R(0)),
              !.cs  = cs_reset_state]

(***************************************************************************)
(* DMPs.step(tau, error, external_force, goal, goal_vel)                   *)
(***************************************************************************)
\* self.goal / self.goal_vel after the two assignments that open step
step_goal(s, a) == IF a.goal # None THEN a.goal ELSE s.goal

step_goal_vel(s, a) == IF a.goal_vel # None THEN a.goal_vel ELSE s.goal_vel

error_coupling(a) == RInv(RAdd(R(1), RAbs(a.error)))

\* the forcing term of dimension d at phase x, psi being gen_psi(x)
forcing(s, x, psi, d) ==
    RDiv(RMul(gen_front_term(s, x, d), Dot(psi, s.w[d])), RSum(psi, n_bfs))

\* the gate taken as x instead of (1-x)
gated_by_x(x, ay_d, by_d, e_current, e_dot_current, tau, f) ==
    RMul(x, RAdd(RMul(ay_d, RAdd(RMul(by_d, e_current), RMul(e_dot_current, tau))), f))

\* (1-x)*(ay*(by*e_current + e_dot_current*tau) + f)
gated(x, ay_d, by_d, e_current, e_dot_current, tau, f) ==
    RMul(RSub(R(1), x),
         RAdd(RMul(ay_d, RAdd(RMul(by_d, e_current), RMul(e_dot_current, tau))), f))

\* the external force added inside the (1-x) gate
ddy_raw_force_gated(s, a, x, psi, d) ==
    gated(x, s.ay[d], s.by[d],
          RSub(s.goal[d], s.y[d]), RSub(s.goal_vel[d], s.vel[d]), a.tau,
          IF a.external_force # None
          THEN RAdd(forcing(s, x, psi, d), a.external_force[d])
          ELSE forcing(s, x, psi, d))

\* self.ddy[d] before the division by tau
ddy_raw(s, a, x, psi, d) ==
    LET g == gated(x, s.ay[d], s.by[d],
                   RSub(s.goal[d], s.y[d]), RSub(s.goal_vel[d], s.vel[d]),
                   a.tau, forcing(s, x, psi, d))
    IN  IF a.external_force # None THEN RAdd(g, a.external_force[d]) ELSE g

\* the loop body with the error coupling scaling the integration of dy
step_dim_error_coupled(s, a, x, psi, d) ==
    LET ddy == RDiv(ddy_raw(s, a, x, psi, d), a.tau)
        acc == RDiv(ddy, a.tau)
        dy  == RAdd(s.dy[d], RMul(RMul(ddy, dt), error_coupling(a)))
        vel == RDiv(dy, a.tau)
        y   == RAdd(s.y[d], RMul(vel, dt))
    IN  [ddy |-> ddy, acc |-> acc, dy |-> dy, vel |-> vel, y |-> y, x |-> x]

\* the loop body with vel taken from dy before dy is integrated
step_dim_stale_vel(s, a, x, psi, d) ==
    LET ddy == RDiv(ddy_raw(s, a, x, psi, d), a.tau)
        acc == RDiv(ddy, a.tau)
        dy  == RAdd(s.dy[d], RMul(ddy, dt))
        vel == RDiv(s.dy[d], a.tau)
        y   == RAdd(s.y[d], RMul(vel, dt))
    IN  [ddy |-> ddy, acc |-> acc, dy |-> dy, vel |-> vel, y |-> y, x |-> x]

\* the body of the loop over the dimensions, for dimension d at phase x;
\* s already holds the goal and goal_vel of this call
step_dim(s, a, x, psi, d) ==
    LET ddy == RDiv(ddy_raw(s, a, x, psi, d), a.tau)
        acc == RDiv(ddy, a.tau)
        dy  == RAdd(s.dy[d], RMul(ddy, dt))
        vel == RDiv(dy, a.tau)
        y   == RAdd(s.y[d], RMul(vel, dt))
    IN  [ddy |-> ddy, acc |-> acc, dy |-> dy, vel |-> vel, y |-> y, x |-> x]

\* the loop "for d in range(self.n_dmps)" over the first k dimensions
RECURSIVE step_dims(_, _, _, _, _)
step_dims(s, a, x, psi, k) ==
    IF k = 0 THEN <<>>
    ELSE Append(step_dims(s, a, x, psi, k - 1), step_dim(s, a, x, psi, k))

\* the engine after the loop and what the call returns; r holds the loop's
\* result for every dimension
step_end(s, a, x, r) ==
    [dmp |-> [s EXCEPT !.ddy = [d \in Dims |-> r[d].ddy],
                       !.acc = [d \in Dims |-> r[d].acc],
                       !.dy  = [d \in Dims |-> r[d].dy],
                       !.vel = [d \in Dims |-> r[d].vel],
                       !.y   = [d \in Dims |-> r[d].y],
                       !.cs  = cs_step(s.cs, a.tau, error_coupling(a))],
     y |-> [d \in Dims |-> r[d].y],
     vel |-> [d \in Dims |-> r[d].vel],
     acc |-> [d \in Dims |-> r[d].acc],
     x |-> x,
     x_used |-> [d \in Dims |-> r[d].x]]

\* the call from the phase read on: x = self.cs.x, psi = self.gen_psi(x), the
\* loop, the advance of the phase source and the return
step_at(s, a, x) ==
    CHOOSE res \in {step_end(s, a, x, r) :
                       r \in {step_dims(s, a, x, psi, n_dmps) : psi \in {gen_psi(x)}}} :
        TRUE

\* step with the goal and goal_vel of the call used for this call only
step_goal_transient(s, a) ==
    CHOOSE res \in {[r EXCEPT !.dmp.goal = s.goal, !.dmp.goal_vel = s.goal_vel] :
                       r \in {step_at([s EXCEPT !.goal = step_goal(s, a),
                                                !.goal_vel = step_goal_vel(s, a)],
                                       a, s.cs.x)}} :
        TRUE

\* step with the phase source advanced where the phase is read, x =
\* self.cs.step(...), instead of after the loop
step_phase_first(s, a) ==
    LET s1 == [s EXCEPT !.goal = step_goal(s, a),
                        !.goal_vel = step_goal_vel(s, a),
                        !.cs = cs_step(s.cs, a.tau, error_coupling(a))]
    IN  CHOOSE res \in {[r EXCEPT !.dmp.cs = s1.cs] :
                           r \in {step_at(s1, a, s1.cs.x)}} :
            TRUE

\* the whole call
step(s, a) ==
    CHOOSE res \in {step_at(s1, a, s1.cs.x) :
                       s1 \in {[s EXCEPT !.goal = step_goal(s, a),
                                         !.goal_vel = step_goal_vel(s, a)]}} :
        TRUE

(***************************************************************************)
(* DMPs.rollout(timesteps, **kwargs)                                       *)
(***************************************************************************)
\* the arguments step receives from rollout's kwargs (tau defaults to 1.0)
step_kwargs(kw) == [kw EXCEPT !.tau = IF kw.tau # None THEN kw.tau ELSE R(1)]

\* the number of rows rollout allocates
rollout_timesteps(ts, kw) ==
    IF ts = NoTimesteps
    THEN IF kw.tau # None THEN Trunc(RMul(R(timesteps), kw.tau)) ELSE timesteps
    ELSE ts

\* the loop "for t in range(timesteps)": acc holds the engine and the tracks
RECURSIVE rollout_loop(_, _, _)
rollout_loop(acc, a, k) ==
    IF k = 0 THEN acc
    ELSE CHOOSE res \in
             {rollout_loop([dmp       |-> r.dmp,
                            y_track   |-> Append(acc.y_track, r.y),
                            dy_track  |-> Append(acc.dy_track, r.vel),
                            ddy_track |-> Append(acc.ddy_track, r.acc)],
                           a, k - 1) : r \in {step(acc.dmp, a)}} : TRUE

\* rollout without the self.reset_state() that opens it
rollout_without_reset(s, ts, kw) ==
    rollout_loop([dmp |-> s, y_track |-> <<>>, dy_track |-> <<>>, ddy_track |-> <<>>],
                 step_kwargs(kw), rollout_timesteps(ts, kw))

rollout(s, ts, kw) ==
    rollout_loop([dmp |-> reset_state(s, None, None),
                  y_track |-> <<>>, dy_track |-> <<>>, ddy_track |-> <<>>],
                 step_kwargs(kw), rollout_timesteps(ts, kw))

(***************************************************************************)
(* DMPs.imitate_path(y_des)                                                *)
(***************************************************************************)
\* np.linspace(0, self.cs.run_time, L)[i], counting i from 1
linspace(L, i) == RDiv(RMul(run_time, R(i - 1)), R(L - 1))

\* scipy.interpolate.interp1d(x, row)(t), linear, with x = linspace over the
\* run time and L = len(row): the segment [x_i, x_i+1] that holds t
interp1d(row, t) ==
    LET L == Len(row)
        i == CHOOSE k \in 1 .. L - 1 :
                 /\ RLe(linspace(L, k), t)
                 /\ RLe(t, linspace(L, k + 1))
    IN  RAdd(row[i],
             RDiv(RMul(RSub(row[i + 1], row[i]), RSub(t, linspace(L, i))),
                  RSub(linspace(L, i + 1), linspace(L, i))))

\* path[d, t] = path_gen(t * self.dt) for t in range(self.timesteps)
resample(y_des) ==
    [d \in Dims |-> [t \in 1 .. timesteps |-> interp1d(y_des[d], RMul(R(t - 1), dt))]]

\* np.gradient(row): central differences inside, one-sided at both ends
gradient(row) ==
    LET N == Len(row)
    IN  [t \in 1 .. N |->
            IF t = 1 THEN RSub(row[2], row[1])
            ELSE IF t = N THEN RSub(row[N], row[N - 1])
            ELSE RDiv(RSub(row[t + 1], row[t - 1]), R(2))]

\* np.gradient(m, axis=1) / self.dt
derivative(m) ==
    [d \in Dims |-> [t \in 1 .. timesteps |-> RDiv(gradient(m[d])[t], dt)]]

\* f_target[t, d] = ddy_des[d] - ay[d] * (by[d] * (goal[d] - y_des[d]) - dy_des[d])
f_target(s, path) ==
    LET dy_des  == derivative(path)
        ddy_des == derivative(dy_des)
    IN  [t \in 1 .. timesteps |->
            [d \in Dims |->
                RSub(ddy_des[d][t],
                     RMul(s.ay[d],
                          RSub(RMul(s.by[d], RSub(s.goal[d], path[d][t])),
                               dy_des[d][t])))]]

\* the phase at each of the timesteps of an undisturbed run of the phase
\* source (cs.rollout())
RECURSIVE x_track(_)
x_track(t) ==
    IF t = 1 THEN cs_reset_state.x
    ELSE cs_step([x |-> x_track(t - 1), n |-> 0], R(1), R(1)).x

\* gen_weights(f_target) of the basis policy: for each dimension and basis
\* function, the activation-weighted mean of the target forcing over the
\* timesteps (zero for a basis function no timestep activates)
gen_weights(ft) ==
    [d \in Dims |->
        [b \in 1 .. n_bfs |->
            LET act == [t \in 1 .. timesteps |-> gen_psi(x_track(t))[b]]
                tot == RSum(act, timesteps)
            IN  IF tot = R(0) THEN R(0)
                ELSE RDiv(RSum([t \in 1 .. timesteps |-> RMul(act[t], ft[t][d])],
                               timesteps),
                          tot)]]

\* the engine once y0, y_des and goal are set from the demonstration
imitate_start(s, y_des) ==
    [s EXCEPT !.y0 = [d \in Dims |-> y_des[d][1]],
              !.y_des = y_des,
              !.goal = gen_goal(y_des)]

\* the engine once gen_weights has stored the weights fitted to f_target
imitate_fit(s, path) == [s EXCEPT !.w = gen_weights(f_target(s, path))]

\* imitate_path without the self.reset_state() that ends it
imitate_path_without_reset(s, y_des) ==
    CHOOSE res \in {[dmp |-> imitate_fit(imitate_start(s, y_des), path), path |-> path] :
                       path \in {resample(y_des)}} : TRUE

\* the whole call: the engine after it and the resampled path it returns
imitate_path(s, y_des) ==
    CHOOSE res \in {[dmp |-> reset_state(imitate_fit(imitate_start(s, y_des), path),
                                          None, None),
                     path |-> path] :
                       path \in {resample(y_des)}} : TRUE

(***************************************************************************)
(* Inputs of the calls.                                                    *)
(***************************************************************************)
\* the defaults of step: tau=1.0, error=0.0, no force, no goal, no goal_vel
StepDefaults ==
    [tau |-> R(1), error |-> R(0), external_force |-> None,
     goal |-> None, goal_vel |-> None]

Force1 == Ramp(R(1))

Goal2 == Ramp(R(2))

GoalVel2 == Vec(R(1))

StepArgs ==
    { StepDefaults,
      [StepDefaults EXCEPT !.tau = R(2), !.error = R(0 - 1)],
      [StepDefaults EXCEPT !.tau = R(2), !.external_force = Force1],
      [StepDefaults EXCEPT !.goal = Goal2, !.goal_vel = GoalVel2] }

\* rollout's kwargs: tau is None when the caller passes no tau
NoKwargs == [StepDefaults EXCEPT !.tau = None]

RolloutArgs ==
    ({NoTimesteps} \X { NoKwargs,
                        [NoKwargs EXCEPT !.tau = R(1)],
                        [NoKwargs EXCEPT !.tau = R(2)] })
        \cup ((0 .. MaxTimesteps)
                \X {[NoKwargs EXCEPT !.tau = R(2), !.goal = Goal2,
                                     !.external_force = Force1]})

Y0Values == {None, Ramp(R(1))}

Dy0Values == {None, Ramp(Q(1, 2))}

\* demonstrations, one row per dimension
Paths ==
    { [d \in Dims |-> <<R(0), R(d), R(2 * d)>>],
      [d \in Dims |-> <<R(d), R(1)>>] }

WZero == [d \in Dims |-> [b \in 1 .. n_bfs |-> R(0)]]


(***************************************************************************)
(* State: dmp is the engine, call the last call with its arguments (n is   *)
(* the number of phase advances the call found since the last reset), ret  *)
(* what it returned, and pre the engine as the last call found it: whole   *)
(* for step, and for the calls that start a trajectory afresh only the     *)
(* fields that outlive a reset.                                            *)
(***************************************************************************)
NoCall ==
    [op |-> "init", a |-> StepDefaults, ts |-> NoTimesteps,
     y0 |-> None, dy0 |-> None, y_des |-> None, n |-> 0]

NoRet ==
    [y |-> None, vel |-> None, acc |-> None, x |-> None, x_used |-> None,
     y_track |-> None, dy_track |-> None, ddy_track |-> None, path |-> None]

\* the gain the engine is constructed with (ay=...); by is left to its default
AyArg == Vec(R(4))

\* DMPs.__init__ with its defaults y0=0, goal=1, goal_vel=0, w=None, by=None,
\* up to the reset_state() that ends it
Constructed ==
    LET ay == AyArg
    IN  reset_state([y0 |-> Vec(R(0)), goal |-> Vec(R(1)), goal_vel |-> Vec(R(0)),
                     w |-> WZero, ay |-> ay,
                     by |-> [d \in Dims |-> RDiv(ay[d], R(4))],
                     y |-> None, dy |-> None, vel |-> None, acc |-> None,
                     ddy |-> None, cs |-> cs_reset_state, y_des |-> None],
                    None, None)

Persistent(s) ==
    [s EXCEPT !.y = None, !.dy = None, !.vel = None, !.acc = None, !.ddy = None,
              !.cs = cs_reset_state]

Init ==
    /\ dmp = Constructed
    /\ pre = Persistent(Constructed)
    /\ call = NoCall
    /\ ret = NoRet

ResetState ==
    \E y0 \in Y0Values, dy0 \in Dy0Values :
        /\ dmp' = reset_state(dmp, y0, dy0)
        /\ pre' = Persistent(dmp)
        /\ call' = [NoCall EXCEPT !.op = "reset_state", !.y0 = y0, !.dy0 = dy0,
                                !.n = dmp.cs.n]
        /\ ret' = NoRet

Step ==
    /\ dmp.cs.n < MaxSteps
    /\ \E a \in StepArgs :
        LET r == step(dmp, a)
        IN  /\ dmp' = r.dmp
            /\ pre' = dmp
            /\ call' = [NoCall EXCEPT !.op = "step", !.a = a, !.n = dmp.cs.n]
            /\ ret' = [NoRet EXCEPT !.y = r.y, !.vel = r.vel, !.acc = r.acc,
                                    !.x = r.x, !.x_used = r.x_used]

Rollout ==
    \E ra \in RolloutArgs :
        LET r == rollout(dmp, ra[1], ra[2])
        IN  /\ dmp' = r.dmp
            /\ pre' = Persistent(dmp)
            /\ call' = [NoCall EXCEPT !.op = "rollout", !.a = ra[2], !.ts = ra[1],
                                    !.n = dmp.cs.n]
            /\ ret' = [NoRet EXCEPT !.y_track = r.y_track, !.dy_track = r.dy_track,
                                    !.ddy_track = r.ddy_track]

ImitatePath ==
    \E y_des \in Paths :
        LET r == imitate_path(dmp, y_des)
        IN  /\ dmp' = r.dmp
            /\ pre' = Persistent(dmp)
            /\ call' = [NoCall EXCEPT !.op = "imitate_path", !.y_des = y_des,
                                    !.n = dmp.cs.n]
            /\ ret' = [NoRet EXCEPT !.path = r.path]

Next == ResetState \/ Step \/ Rollout \/ ImitatePath

Spec == Init /\ [][Next]_vars

(***************************************************************************)
(* Properties.                                                             *)
(***************************************************************************)
Zero == Vec(R(0))

\* the rows a rollout call is to produce when its count is stated: the
\* timesteps argument, or the engine's timesteps when neither it nor tau is
\* passed
StatedRows == IF call.ts # NoTimesteps THEN call.ts ELSE timesteps

\* C1: a rollout whose step count N is stated (an explicit timesteps, or no
\* timesteps and no tau, which gives the engine's timesteps) returns three
\* tracks of exactly N rows, leaves the phase source exactly N advances
\* after its reset whatever the engine's state was before, ends in the state
\* of its last row, and with N = 0 leaves the engine in the reset state.
C1_RolloutRows ==
    (call.op = "rollout" /\ (call.ts # NoTimesteps \/ call.a.tau = None)) =>
        /\ Len(ret.y_track) = StatedRows
        /\ Len(ret.dy_track) = StatedRows
        /\ Len(ret.ddy_track) = StatedRows
        /\ dmp.cs.n = StatedRows
        /\ StatedRows = 0 =>
              /\ dmp.y = dmp.y0
              /\ dmp.dy = Zero /\ dmp.vel = Zero /\ dmp.acc = Zero /\ dmp.ddy = Zero
              /\ dmp.cs = cs_reset_state
        /\ StatedRows > 0 =>
              /\ ret.y_track[StatedRows] = dmp.y
              /\ ret.dy_track[StatedRows] = dmp.vel
              /\ ret.ddy_track[StatedRows] = dmp.acc

\* a rollout() with no argument, called on an engine that had advanced
C1_Witness ==
    /\ call.op = "rollout"
    /\ call.ts = NoTimesteps
    /\ call.a.tau = None
    /\ call.n > 0
    /\ Len(ret.y_track) = timesteps
    /\ dmp.cs.n = timesteps

\* C2: with no explicit step count, rollout(tau=2.0) returns half as many
\* rows as rollout(tau=1.0) on the same engine.
C2_TauTwoHalvesRows ==
    (call.op = "rollout" /\ call.ts = NoTimesteps /\ call.a.tau = R(2)) =>
        2 * Len(ret.y_track)
            = Len(rollout(pre, NoTimesteps, [call.a EXCEPT !.tau = R(1)]).y_track)

\* C3 as stated: after reset_state(y0, dy0) the position is the given y0 (or
\* the stored one), dy, vel, acc and ddy are all zero, the phase source is at
\* its initial phase and w is unchanged.
C3_ResetZeroesAll ==
    call.op = "reset_state" =>
        /\ dmp.y = (IF call.y0 # None THEN call.y0 ELSE pre.y0)
        /\ dmp.dy = Zero /\ dmp.vel = Zero /\ dmp.acc = Zero /\ dmp.ddy = Zero
        /\ dmp.cs = cs_reset_state
        /\ dmp.w = pre.w

\* C3 as amended: as above, but dy is the given dy0 when one is given (and
\* zero only when none is).
C3_ResetState ==
    call.op = "reset_state" =>
        /\ dmp.y = (IF call.y0 # None THEN call.y0 ELSE pre.y0)
        /\ dmp.dy = (IF call.dy0 # None THEN call.dy0 ELSE Zero)
        /\ dmp.vel = Zero /\ dmp.acc = Zero /\ dmp.ddy = Zero
        /\ dmp.cs = cs_reset_state
        /\ dmp.w = pre.w

\* a reset with both arguments of an engine that had advanced and holds
\* learned weights
C3_Witness ==
    /\ call.op = "reset_state"
    /\ call.y0 # None
    /\ call.dy0 # None
    /\ call.n > 0
    /\ dmp.w # WZero
    /\ dmp.dy # Zero

\* the tau the steps of the last call ran with
LastTau == step_kwargs(call.a).tau

\* C4: after every step (a direct call, or the last step of a rollout) and
\* in every dimension, vel = dy / tau and acc = ddy / tau for the tau of
\* that step.
C4_VelAccScaled ==
    (call.op = "step" \/ (call.op = "rollout" /\ Len(ret.y_track) > 0)) =>
        \A d \in Dims :
            /\ dmp.vel[d] = RDiv(dmp.dy[d], LastTau)
            /\ dmp.acc[d] = RDiv(dmp.ddy[d], LastTau)

\* a step with tau = 2 that follows a step with tau = 1 which left a
\* nonzero velocity
C4_Witness ==
    /\ call.op = "step"
    /\ call.a.tau = R(2)
    /\ pre.cs.n = 1
    /\ pre.vel[1] # R(0)
    /\ pre.vel[1] = pre.dy[1]
    /\ dmp.vel[1] # dmp.dy[1]

\* the engine of the last step call once the call has stored its goal and
\* goal_vel, and the phase the call read
StepEngine(a) == [pre EXCEPT !.goal = step_goal(pre, a), !.goal_vel = step_goal_vel(pre, a)]

\* ddy[d] before the division by tau, for the call step(a) made on pre
DdyRawOf(a, d) == ddy_raw(StepEngine(a), a, pre.cs.x, gen_psi(pre.cs.x), d)

\* C5 as stated: a goal or goal_vel passed to a step call does not persist:
\* after the call the engine holds the goal and goal_vel it held before it.
C5_GoalNotPersisted ==
    call.op = "step" =>
        /\ dmp.goal = pre.goal
        /\ dmp.goal_vel = pre.goal_vel

\* C5 as amended: a goal or goal_vel passed to a step call is stored in the
\* engine and persists; a call that passes none computes with, and leaves in
\* place, what the engine held, be it from construction, from imitate_path
\* or from an earlier call that passed one.
C5_GoalPersists ==
    /\ call.op = "step" =>
          /\ dmp.goal = (IF call.a.goal # None THEN call.a.goal ELSE pre.goal)
          /\ dmp.goal_vel =
                (IF call.a.goal_vel # None THEN call.a.goal_vel ELSE pre.goal_vel)
          /\ \A d \in Dims :
                RMul(dmp.ddy[d], call.a.tau)
                    = ddy_raw([pre EXCEPT !.goal = dmp.goal, !.goal_vel = dmp.goal_vel],
                              call.a, pre.cs.x, gen_psi(pre.cs.x), d)
    /\ (call.op = "rollout" /\ call.a.goal = None) => dmp.goal = pre.goal
    /\ (call.op = "rollout" /\ call.a.goal # None /\ Len(ret.y_track) > 0) =>
          dmp.goal = call.a.goal

\* a step that passes no goal, made on an engine whose goal and goal_vel
\* are those an earlier step call passed
C5_Witness ==
    /\ call.op = "step"
    /\ call.a.goal = None
    /\ call.a.goal_vel = None
    /\ pre.y_des = None
    /\ pre.cs.n = 1
    /\ pre.goal = Goal2
    /\ pre.goal_vel = GoalVel2
    /\ dmp.goal = Goal2
    /\ dmp.ddy[1] # R(0)

\* C6: a step with external_force F and the same step without it, from the
\* same engine state, differ in ddy[d] before the division by tau by exactly
\* F[d], so in the stored ddy[d] by F[d] / tau, and leave the phase source in
\* the same phase.
C6_ForceShiftsDdy ==
    (call.op = "step" /\ call.a.external_force # None) =>
        LET a0 == [call.a EXCEPT !.external_force = None]
        IN  /\ \A d \in Dims :
                  /\ RMul(dmp.ddy[d], call.a.tau) = DdyRawOf(call.a, d)
                  /\ RSub(DdyRawOf(call.a, d), DdyRawOf(a0, d)) = call.a.external_force[d]
                  /\ RSub(dmp.ddy[d], step(pre, a0).dmp.ddy[d])
                        = RDiv(call.a.external_force[d], call.a.tau)
            /\ dmp.cs = step(pre, a0).dmp.cs

\* a forced step with tau = 2 at a phase where the gate is open
C6_Witness ==
    /\ call.op = "step"
    /\ call.a.external_force = Force1
    /\ call.a.tau = R(2)
    /\ pre.cs.n = 1
    /\ pre.cs.x # R(1)
    /\ DdyRawOf([call.a EXCEPT !.external_force = None], 1) # R(0)

\* C7: after imitate_path(P), from any engine state, y0 is the first sample
\* of P and goal the basis policy's goal for P in every dimension, and the
\* engine is in the reset state: y = y0, dy = vel = acc = ddy = 0, the phase
\* source at its initial phase.
C7_ImitateLeavesReset ==
    call.op = "imitate_path" =>
        /\ \A d \in Dims : dmp.y0[d] = call.y_des[d][1]
        /\ dmp.goal = gen_goal(call.y_des)
        /\ dmp.y = dmp.y0
        /\ dmp.dy = Zero /\ dmp.vel = Zero /\ dmp.acc = Zero /\ dmp.ddy = Zero
        /\ dmp.cs = cs_reset_state

\* a second imitate_path, with another demonstration, on an engine that had
\* advanced
C7_Witness ==
    /\ call.op = "imitate_path"
    /\ call.n > 0
    /\ pre.y_des # None
    /\ pre.y_des # call.y_des
    /\ pre.y0 # dmp.y0
    /\ pre.goal # dmp.goal

\* C8: in a step call every dimension reads the phase the call found, that
\* phase is the one returned, and the phase source is advanced exactly once,
\* from that phase.
C8_PhaseAdvancedLast ==
    call.op = "step" =>
        /\ \A d \in Dims : ret.x_used[d] = pre.cs.x
        /\ ret.x = pre.cs.x
        /\ dmp.cs.n = pre.cs.n + 1
        /\ dmp.cs = cs_step(pre.cs, call.a.tau, error_coupling(call.a))

\* a step at a phase below the initial one, which the advance changes
C8_Witness ==
    /\ call.op = "step"
    /\ pre.cs.n = 1
    /\ ret.x # R(1)
    /\ dmp.cs.x # ret.x
    /\ dmp.ddy[1] # R(0)

ErrorValues == {R(0), R(0 - 1), R(3)}

\* C9: the error argument of step reaches only the phase advance: the same
\* call with any other error leaves the same y, dy, vel, acc and ddy and
\* returns the same phase; the phase source after it is the one advanced
\* with the coupling 1/(1+|error|) of that error.
C9_ErrorOnlyPhase ==
    call.op = "step" =>
        \A e \in ErrorValues :
            LET a1 == [call.a EXCEPT !.error = e]
                t  == step(pre, a1)
            IN  /\ t.dmp.y = dmp.y
                /\ t.dmp.dy = dmp.dy
                /\ t.dmp.vel = dmp.vel
                /\ t.dmp.acc = dmp.acc
                /\ t.dmp.ddy = dmp.ddy
                /\ t.x = ret.x
                /\ t.dmp.cs = cs_step(pre.cs, call.a.tau, error_coupling(a1))

\* a step with a nonzero error, at an open gate, whose phase afterwards is
\* not the one the same call with error = 0 leaves
C9_Witness ==
    /\ call.op = "step"
    /\ call.a.error # R(0)
    /\ pre.cs.n = 1
    /\ dmp.ddy[1] # R(0)
    /\ dmp.cs.x # step(pre, [call.a EXCEPT !.error = R(0)]).dmp.cs.x

PhaseGridSize == 4

PhaseGrid == {Q(k, PhaseGridSize) : k \in 0 .. PhaseGridSize}

\* the gated term of dimension d at phase x, for the position error, the
\* velocity error, the forcing value and the tau of the last step call
GatedAt(d, x) ==
    gated(x, pre.ay[d], pre.by[d],
          RSub(StepEngine(call.a).goal[d], pre.y[d]),
          RSub(StepEngine(call.a).goal_vel[d], pre.vel[d]),
          call.a.tau,
          forcing(StepEngine(call.a), pre.cs.x, gen_psi(pre.cs.x), d))

\* C10 as stated: for fixed position error, velocity error, forcing value
\* and tau, the magnitude of the gated term at a phase nearer 0 is no larger
\* than at a phase nearer 1.
C10_GateClosesTowardZero ==
    call.op = "step" =>
        \A d \in Dims : \A x1 \in PhaseGrid, x2 \in PhaseGrid :
            RLe(x1, x2) => RLe(RAbs(GatedAt(d, x1)), RAbs(GatedAt(d, x2)))

\* C10 as amended: the gate is shut at the initial phase x = 1 and opens as
\* the phase goes to 0: the magnitude of the gated term at a phase nearer 0
\* is no smaller than at a phase nearer 1, for the phase of the step as for
\* any phase of the grid.
C10_GateOpensTowardZero ==
    call.op = "step" =>
        \A d \in Dims :
            /\ GatedAt(d, R(1)) = R(0)
            /\ DdyRawOf([call.a EXCEPT !.external_force = None], d) = GatedAt(d, pre.cs.x)
            /\ \A x1 \in PhaseGrid \cup {pre.cs.x}, x2 \in PhaseGrid \cup {pre.cs.x} :
                  RLe(x1, x2) => RLe(RAbs(GatedAt(d, x2)), RAbs(GatedAt(d, x1)))

\* a step at an open gate whose gated term is not zero
C10_Witness ==
    /\ call.op = "step"
    /\ pre.cs.n = 1
    /\ pre.cs.x # R(1)
    /\ GatedAt(1, pre.cs.x) # R(0)
    /\ GatedAt(1, R(0)) # GatedAt(1, pre.cs.x)

====
